---- MODULE Spec2Model ----
(***************************************************************************)
(* Run lifecycle of the ACP agent: ACPAgent (agent/agent.ts) and the HTTP  *)
(* routes that drive it (server/routes.ts).                                *)
(*                                                                         *)
(* JavaScript runs every handler to its next await without interleaving,   *)
(* so one action is one handler up to its await, and the continuation of   *)
(* runACP after "await this.processWithLLM(...)" is an action of its own.  *)
(* A nullable value is the empty sequence (null) or a one-element          *)
(* sequence (the value).  A timestamp is the value of the clock `now`.     *)
(***************************************************************************)
EXTENDS Integers, Sequences, FiniteSets, TLC

\* ------------------------------------------------------------------ bounds
MaxRuns == 1
MaxClock == 2
\* runs created in the specification of the session registry
MaxSessionRuns == 3
\* runs created in the specification of the routes
MaxRouteRuns == 1
\* runs created in the specification of cancel
MaxCancelRuns == 2
\* envelopes of a list handed to the inbound conversion, and parts of one
\* envelope
MaxMessages == 2
MaxParts == 2
\* choices in one answer of the model server
MaxChoices == 3

\* --------------------------------------------------------------- constants
Null == <<>>
Some(x) == <<x>>

AgentName == "my-agent"
FallbackContent == "Lo siento, no pude procesar tu solicitud en este momento."

TerminalStatuses == {"completed", "failed", "cancelled"}
IsTerminal(status) == status \in TerminalStatuses

\* ------------------------------------------------------------------ inputs
\* Message envelopes of a creation request.  An element of the input array
\* need not be a well-formed Message: routes.ts only checks Array.isArray.
\* A role or a content type is a sequence of characters, so that
\* String.prototype.startsWith can be computed; a content is a string.
TextPlain == <<"t", "e", "x", "t", "/", "p", "l", "a", "i", "n">>
ImagePng == <<"i", "m", "a", "g", "e", "/", "p", "n", "g">>
RoleUser == <<"u", "s", "e", "r">>
RoleAgent == <<"a", "g", "e", "n", "t", "/", "m", "y">>
\* a role that is neither user nor agent/<name>
RoleAgentic == <<"a", "g", "e", "n", "t", "i", "c">>
TextPart(c) == [content_type |-> TextPlain, content |-> c]
ImagePart == [content_type |-> ImagePng, content |-> "iVBOR"]
UserMsg(c) == [role |-> RoleUser, parts |-> <<TextPart(c)>>]
BadMsg == [role |-> RoleUser]

Inputs ==
  { <<UserMsg("2+2?")>>,
    <<UserMsg("hi"), [role |-> RoleAgent, parts |-> <<TextPart("hello"), ImagePart>>]>>,
    <<>>,
    <<BadMsg>> }

IsArray(v) == v.array
Arr(items) == [array |-> TRUE, items |-> items]
NotArr == [array |-> FALSE]

CallerSessions == {"s1"}
Modes == {"sync", "async", "stream"}

\* Bodies of POST /runs.  A field that is absent is absent from the record.
ValidRequests ==
  { [agent_name |-> AgentName, input |-> Arr(i), session_id |-> s, mode |-> m] :
      i \in Inputs, s \in CallerSessions, m \in Modes }
  \cup { [agent_name |-> AgentName, input |-> Arr(i), mode |-> m] :
      i \in Inputs, m \in Modes }
  \cup { [agent_name |-> AgentName, input |-> Arr(i), session_id |-> s] :
      i \in Inputs, s \in CallerSessions }

RejectedRequests ==
  { [input |-> Arr(<<UserMsg("hi")>>), session_id |-> "s1"],
    [agent_name |-> AgentName, session_id |-> "s1"],
    [agent_name |-> AgentName, input |-> NotArr, session_id |-> "s1"],
    [agent_name |-> "other", input |-> Arr(<<UserMsg("hi")>>), session_id |-> "s1"] }

Requests == ValidRequests \cup RejectedRequests

\* the requests that leave the mode to its default
SyncRequests == { request \in Requests : "mode" \notin DOMAIN request }

\* What the awaited backend call can do: return an LLMResponse or raise.
BackendReturns ==
  { [success |-> TRUE, content |-> "4"],
    [success |-> FALSE, content |-> FallbackContent] }
BackendRaises == { [isError |-> TRUE, message |-> "Model not available"],
                   [isError |-> FALSE] }

RunIds == 1..MaxRuns
\* run ids a client may name in a path: every id that can exist and one that never does
PathRunIds == 0..MaxRuns

\* ------------------------------------------------------------------- state
VARIABLES
  runs,            \* ACPAgent.runs: run id -> Run
  runEvents,       \* ACPAgent.runEvents: run id -> sequence of Event
  sessions,        \* ACPAgent.sessions: session id -> sequence of run ids
  routerSessions,  \* routes.ts sessions: the session ids the router knows
  tasks,           \* run id -> the runACP call of that run and the POST /runs
                   \* request awaiting it: their locals and their position
  uuid,            \* number of run ids uuidv4() handed out
  now,             \* the clock read by new Date()
  res,             \* the last HTTP response sent
  transitions,     \* run id -> number of changes of the stored status (history)
  messages,        \* the argument of a call of convertACPMessagesToLLM
  llmMessages,     \* what that call returned, null before it returns
  upstream,        \* how this.client.post(...) of a generateResponse call
                   \* settled, null while it is pending
  generated        \* how that generateResponse call ended, null before

vars == <<runs, runEvents, sessions, routerSessions, tasks, uuid, now, res,
          transitions, messages, llmMessages, upstream, generated>>

Put(map, k, v) == [x \in DOMAIN map \cup {k} |-> IF x = k THEN v ELSE map[x]]

\* the agent and the router after construction
Constructed ==
  /\ runs = <<>>
  /\ runEvents = <<>>
  /\ sessions = <<>>
  /\ routerSessions = {}
  /\ tasks = <<>>
  /\ uuid = 0
  /\ now = 0
  /\ res = [req |-> "none"]
  /\ transitions = <<>>

Init ==
  /\ Constructed
  /\ messages = <<>>
  /\ llmMessages = Null
  /\ upstream = Null
  /\ generated = Null

\* ------------------------------------------------------- message converter
StartsWith(s, prefix) ==
  /\ Len(s) >= Len(prefix)
  /\ SubSeq(s, 1, Len(prefix)) = prefix

RECURSIVE Join(_)
Join(strs) ==
  IF strs = <<>> THEN ""
  ELSE IF Len(strs) = 1 THEN strs[1]
  ELSE strs[1] \o "\n" \o Join(Tail(strs))

IsTextPart(part) ==
  /\ "content_type" \in DOMAIN part
  /\ part.content_type # <<>>
  /\ StartsWith(part.content_type, <<"t", "e", "x", "t", "/">>)

PartContent(part) == IF "content" \in DOMAIN part THEN part.content ELSE ""

\* message.parts.filter(...) and message.role.startsWith(...) raise a
\* TypeError on an element that has no parts or no role.
MessageThrows(message) ==
  \/ "parts" \notin DOMAIN message
  \/ "role" \notin DOMAIN message

ConvertThrows(msgs) == \E i \in 1..Len(msgs) : MessageThrows(msgs[i])

convertMessage(message) ==
  LET texts == SelectSeq(message.parts, IsTextPart)
      textContent == Join([i \in 1..Len(texts) |-> PartContent(texts[i])])
      role == IF StartsWith(message.role, <<"a", "g", "e", "n", "t">>)
              THEN "assistant" ELSE "user"
  IN [role |-> role, content |-> textContent]

\* the conversion leaving out the envelopes that have no text
convertACPMessagesToLLM_DropsEmpty(msgs) ==
  SelectSeq([i \in 1..Len(msgs) |-> convertMessage(msgs[i])],
            LAMBDA pair : pair.content # "")

convertACPMessagesToLLM(msgs) ==
  [i \in 1..Len(msgs) |-> convertMessage(msgs[i])]

convertLLMResponseToACP(llmResponse) ==
  << [ role |-> "agent/" \o AgentName,
       parts |-> << [ content_type |-> "text/plain",
                      content |-> llmResponse.content,
                      content_encoding |-> "plain",
                      metadata |-> Null ] >>,
       created_at |-> now,
       completed_at |-> now ] >>

\* ------------------------------------------------------------ the agent
\* emitEvent keeping only the newest event
emitEvent_Overwrites(events, runId, event) == Put(events, runId, <<event>>)

emitEvent(events, runId, event) ==
  Put(events, runId,
      Append(IF runId \in DOMAIN events THEN events[runId] ELSE <<>>, event))

\* the number of changes of stored status a runs.set(runId, run) makes
Bump(count, table, runId, run) ==
  IF runId \in DOMAIN table /\ table[runId].status = run.status
  THEN count
  ELSE Put(count, runId, (IF runId \in DOMAIN count THEN count[runId] ELSE 0) + 1)

ErrorMessage(error) == IF error.isError THEN error.message ELSE "Unknown error"

\* failedRun without the error object
failedRun_NoError(runId, sessionId, startTime, error) ==
  [ agent_name |-> AgentName,
    session_id |-> sessionId,
    run_id |-> runId,
    status |-> "failed",
    await_request |-> Null,
    output |-> <<>>,
    error |-> Null,
    created_at |-> startTime,
    finished_at |-> Some(now) ]

\* failedRun with a session id of its own instead of the argument
failedRun_OtherSession(runId, sessionId, startTime, error) ==
  [ agent_name |-> AgentName,
    session_id |-> "default",
    run_id |-> runId,
    status |-> "failed",
    await_request |-> Null,
    output |-> <<>>,
    error |-> Some([code |-> "server_error", message |-> ErrorMessage(error),
                    data |-> Null]),
    created_at |-> startTime,
    finished_at |-> Some(now) ]

\* The Run built by the catch branch of runACP.
failedRun(runId, sessionId, startTime, error) ==
  [ agent_name |-> AgentName,
    session_id |-> sessionId,
    run_id |-> runId,
    status |-> "failed",
    await_request |-> Null,
    output |-> <<>>,
    error |-> Some([code |-> "server_error", message |-> ErrorMessage(error),
                    data |-> Null]),
    created_at |-> startTime,
    finished_at |-> Some(now) ]

\* completedRun without the output messages
completedRun_NoOutput(run, llmResponse) ==
  [run EXCEPT !.status = "completed", !.finished_at = Some(now)]

\* completedRun parking the run until the client resumes it
completedRun_Awaits(run, llmResponse) ==
  [run EXCEPT !.status = "awaiting",
              !.await_request = Some(llmResponse.content)]

\* completedRun that fails the run when the client reports no success
completedRun_ChecksSuccess(run, llmResponse) ==
  IF llmResponse.success
  THEN [run EXCEPT !.status = "completed",
                   !.output = convertLLMResponseToACP(llmResponse),
                   !.finished_at = Some(now)]
  ELSE [run EXCEPT !.status = "failed",
                   !.error = Some([code |-> "server_error",
                                   message |-> llmResponse.content,
                                   data |-> Null]),
                   !.finished_at = Some(now)]

completedRun(run, llmResponse) ==
  [run EXCEPT !.status = "completed",
              !.output = convertLLMResponseToACP(llmResponse),
              !.finished_at = Some(now)]

\* "Ensure session exists" without the test for an existing session
ensureSession_Resets(table, sessionId) ==
  Put(table, sessionId, [runs |-> <<>>, createdAt |-> now])

\* "Ensure session exists" at the head of runACP
ensureSession(table, sessionId) ==
  IF sessionId \in DOMAIN table THEN table
  ELSE Put(table, sessionId, [runs |-> <<>>, createdAt |-> now])

\* runACP from its entry to the await of processWithLLM, or to its return
\* when convertACPMessagesToLLM raises.  The result holds the new maps, the
\* local `run`, and the returned Run (Null while the call is suspended).
runACPEnter(input, runId, sessionId) ==
  LET sessions1 == ensureSession(sessions, sessionId)
      run == [ agent_name |-> AgentName,
               session_id |-> sessionId,
               run_id |-> runId,
               status |-> "in-progress",
               await_request |-> Null,
               output |-> <<>>,
               error |-> Null,
               created_at |-> now,
               finished_at |-> Null ]
      runs1 == Put(runs, runId, run)
      count1 == Bump(transitions, runs, runId, run)
      events1 == Put(runEvents, runId, <<>>)
      sessions2 == [sessions1 EXCEPT ![sessionId].runs = Append(@, runId)]
      events2 == emitEvent(events1, runId, [type |-> "run.created", run |-> run])
      events3 == emitEvent(events2, runId,
                           [type |-> "run.in-progress",
                            run |-> [run EXCEPT !.status = "in-progress"]])
      failed == failedRun(runId, sessionId, now,
                          [isError |-> TRUE, message |-> "TypeError"])
  IN IF ConvertThrows(input)
     THEN [ runs |-> Put(runs1, runId, failed),
            runEvents |-> emitEvent(events3, runId,
                                    [type |-> "run.failed", run |-> failed]),
            sessions |-> sessions2,
            transitions |-> Bump(count1, runs1, runId, failed),
            run |-> run,
            result |-> Some(failed) ]
     ELSE [ runs |-> runs1,
            runEvents |-> events3,
            sessions |-> sessions2,
            transitions |-> count1,
            run |-> run,
            result |-> Null ]

\* ------------------------------------------------------------- the routes
\* The frame POST /runs writes first in stream mode.
createdRun(runId, sessionId) ==
  [ agent_name |-> AgentName,
    session_id |-> sessionId,
    run_id |-> runId,
    status |-> "created",
    await_request |-> Null,
    output |-> <<>>,
    error |-> Null,
    created_at |-> now,
    finished_at |-> Null ]

\* POST /runs answering with the run as it was created
RunResponse_SendsCreated(mode, created, result) ==
  IF mode = "stream"
  THEN [ req |-> "POST /runs", code |-> 200,
         frames |-> << [type |-> "run.created", run |-> created] >> ]
  ELSE [ req |-> "POST /runs",
         code |-> IF mode = "async" THEN 202 ELSE 200,
         body |-> created ]

\* What POST /runs sends once runACP has returned `result`.  runACP never
\* rejects, so the catch blocks of the route are not reached.
RunResponse(mode, created, result) ==
  IF mode = "stream"
  THEN [ req |-> "POST /runs", code |-> 200,
         frames |-> << [type |-> "run.created", run |-> created],
                       [type |-> "run.completed",
                        run |-> [created EXCEPT !.status = "completed",
                                                !.output = result.output,
                                                !.finished_at = Some(now)]] >> ]
  ELSE [ req |-> "POST /runs",
         code |-> IF mode = "async" THEN 202 ELSE 200,
         body |-> result ]

ErrorBody(code, message) == [code |-> code, message |-> message, data |-> Null]

\* the session id POST /runs works under
SessionIdOf(request, runId) ==
  IF "session_id" \in DOMAIN request THEN request.session_id
  ELSE "uuid-" \o ToString(runId)

\* POST /runs registering the session before it validates the request
Reject_EnsuresSession(request, code, body) ==
  /\ res' = [req |-> "POST /runs", code |-> code, body |-> body]
  /\ routerSessions' = routerSessions \cup {SessionIdOf(request, uuid + 1)}
  /\ UNCHANGED <<runs, runEvents, sessions, tasks, uuid, now, transitions,
                 messages, llmMessages, upstream, generated>>

\* POST /runs answering an error and returning
Reject(request, code, body) ==
  /\ res' = [req |-> "POST /runs", code |-> code, body |-> body]
  /\ UNCHANGED <<runs, runEvents, sessions, routerSessions, tasks, uuid, now,
                 transitions, messages, llmMessages, upstream, generated>>

PostRuns(request) ==
  IF \/ "agent_name" \notin DOMAIN request
     \/ "input" \notin DOMAIN request
     \/ ~IsArray(request.input)
  THEN Reject(request, 400, ErrorBody("invalid_input", "Missing required fields"))
  ELSE IF request.agent_name # AgentName
  THEN Reject(request, 404, ErrorBody("not_found", "Agent not found"))
  ELSE
    LET runId == uuid + 1
        sessionId == SessionIdOf(request, runId)
        mode == IF "mode" \in DOMAIN request THEN request.mode ELSE "sync"
        created == createdRun(runId, sessionId)
        enter == runACPEnter(request.input.items, runId, sessionId)
    IN /\ uuid' = uuid + 1
       /\ routerSessions' = routerSessions \cup {sessionId}
       /\ runs' = enter.runs
       /\ runEvents' = enter.runEvents
       /\ sessions' = enter.sessions
       /\ transitions' = enter.transitions
       /\ tasks' = Put(tasks, runId,
                       [ pc |-> IF enter.result = Null THEN "await" ELSE "done",
                         run |-> enter.run,
                         sessionId |-> sessionId,
                         llmResponse |-> Null,
                         error |-> IF enter.result = Null THEN Null
                                   ELSE Some([isError |-> TRUE, message |-> "TypeError"]),
                         mode |-> mode,
                         created |-> created ])
       /\ res' = IF enter.result = Null
                 THEN IF mode = "stream"
                      THEN [ req |-> "POST /runs", code |-> 200,
                             frames |-> <<[type |-> "run.created", run |-> created]>> ]
                      ELSE res
                 ELSE RunResponse(mode, created, enter.result[1])
       /\ UNCHANGED <<now, messages, llmMessages, upstream, generated>>

\* runACP after the await, the backend call having returned llmResponse,
\* and the rest of POST /runs.
LLMReturns(runId, llmResponse) ==
  /\ runId \in DOMAIN tasks
  /\ tasks[runId].pc = "await"
  /\ LET task == tasks[runId]
         completed == completedRun(task.run, llmResponse)
     IN /\ runs' = Put(runs, runId, completed)
        /\ transitions' = Bump(transitions, runs, runId, completed)
        /\ runEvents' = emitEvent(runEvents, runId,
                                  [type |-> "run.completed", run |-> completed])
        /\ tasks' = [tasks EXCEPT ![runId].pc = "done",
                                  ![runId].llmResponse = Some(llmResponse)]
        /\ res' = RunResponse(task.mode, task.created, completed)
  /\ UNCHANGED <<sessions, routerSessions, uuid, now, messages, llmMessages, upstream, generated>>

\* runACP's catch branch, the backend call having raised, and the rest of
\* POST /runs.
LLMRaises(runId, error) ==
  /\ runId \in DOMAIN tasks
  /\ tasks[runId].pc = "await"
  /\ LET task == tasks[runId]
         failed == failedRun(runId, task.sessionId, task.run.created_at, error)
     IN /\ runs' = Put(runs, runId, failed)
        /\ transitions' = Bump(transitions, runs, runId, failed)
        /\ runEvents' = emitEvent(runEvents, runId,
                                  [type |-> "run.failed", run |-> failed])
        /\ tasks' = [tasks EXCEPT ![runId].pc = "done",
                                  ![runId].error = Some(error)]
        /\ res' = RunResponse(task.mode, task.created, failed)
  /\ UNCHANGED <<sessions, routerSessions, uuid, now, messages, llmMessages, upstream, generated>>

\* getRun over a table that drops a run once it is finished
getRun_HidesFinished(runId) ==
  IF runId \in DOMAIN runs /\ ~IsTerminal(runs[runId].status)
  THEN Some(runs[runId]) ELSE Null

getRun(runId) == IF runId \in DOMAIN runs THEN Some(runs[runId]) ELSE Null

getRunEvents(runId) ==
  IF runId \in DOMAIN runEvents THEN Some(runEvents[runId]) ELSE Null

\* cancelledRun entering the intermediate status first
cancelledRun_Cancelling(run) ==
  [run EXCEPT !.status = "cancelling", !.finished_at = Some(now)]

cancelledRun(run) ==
  [run EXCEPT !.status = "cancelled", !.finished_at = Some(now)]

\* the value cancelRun returns
cancelRunResult(runId) ==
  IF runId \notin DOMAIN runs THEN Null
  ELSE IF IsTerminal(runs[runId].status) THEN Some(runs[runId])
  ELSE Some(cancelledRun(runs[runId]))

\* cancelRun without the check for a run that is already finished
cancelRun_NoTerminalCheck(runId) ==
  IF runId \notin DOMAIN runs
  THEN UNCHANGED <<runs, runEvents, transitions>>
  ELSE LET cancelled == cancelledRun(runs[runId])
       IN /\ runs' = Put(runs, runId, cancelled)
          /\ transitions' = Bump(transitions, runs, runId, cancelled)
          /\ runEvents' = emitEvent(runEvents, runId,
                                    [type |-> "run.cancelled", run |-> cancelled])

\* cancelRun without its emitEvent
cancelRun_NoEvent(runId) ==
  IF runId \notin DOMAIN runs \/ IsTerminal(runs[runId].status)
  THEN UNCHANGED <<runs, runEvents, transitions>>
  ELSE LET cancelled == cancelledRun(runs[runId])
       IN /\ runs' = Put(runs, runId, cancelled)
          /\ transitions' = Bump(transitions, runs, runId, cancelled)
          /\ UNCHANGED runEvents

\* the writes cancelRun makes
cancelRun(runId) ==
  IF runId \notin DOMAIN runs \/ IsTerminal(runs[runId].status)
  THEN UNCHANGED <<runs, runEvents, transitions>>
  ELSE LET cancelled == cancelledRun(runs[runId])
       IN /\ runs' = Put(runs, runId, cancelled)
          /\ transitions' = Bump(transitions, runs, runId, cancelled)
          /\ runEvents' = emitEvent(runEvents, runId,
                                    [type |-> "run.cancelled", run |-> cancelled])

resumedRun(run) ==
  [run EXCEPT !.status = "completed", !.finished_at = Some(now)]

resumeRunResult(runId) ==
  IF runId \notin DOMAIN runs \/ runs[runId].status # "awaiting" THEN Null
  ELSE Some(resumedRun(runs[runId]))

resumeRun(runId) ==
  IF runId \notin DOMAIN runs \/ runs[runId].status # "awaiting"
  THEN UNCHANGED <<runs, runEvents, transitions>>
  ELSE LET resumed == resumedRun(runs[runId])
       IN /\ runs' = Put(runs, runId, resumed)
          /\ transitions' = Bump(transitions, runs, runId, resumed)
          /\ runEvents' = emitEvent(runEvents, runId,
                                    [type |-> "run.completed", run |-> resumed])

NotFound(req) == [req |-> req, code |-> 404,
                  body |-> ErrorBody("not_found", "not found")]

\* POST /runs/:run_id/cancel that also gives up the pending runACP call
PostCancel_Aborts(runId) ==
  /\ cancelRun(runId)
  /\ res' = IF cancelRunResult(runId) = Null THEN NotFound("POST /runs/:run_id/cancel")
            ELSE [req |-> "POST /runs/:run_id/cancel", code |-> 202,
                  body |-> cancelRunResult(runId)[1]]
  /\ tasks' = IF runId \in DOMAIN tasks
              THEN [tasks EXCEPT ![runId].pc = "done"] ELSE tasks
  /\ UNCHANGED <<sessions, routerSessions, uuid, now, messages, llmMessages,
                 upstream, generated>>

\* POST /runs/:run_id/cancel
PostCancel(runId) ==
  /\ cancelRun(runId)
  /\ res' = IF cancelRunResult(runId) = Null THEN NotFound("POST /runs/:run_id/cancel")
            ELSE [req |-> "POST /runs/:run_id/cancel", code |-> 202,
                  body |-> cancelRunResult(runId)[1]]
  /\ UNCHANGED <<sessions, routerSessions, tasks, uuid, now, messages, llmMessages, upstream, generated>>

\* POST /runs/:run_id without the check of the status
PostResume_NoStatusCheck(runId, mode) ==
  IF getRun(runId) = Null
  THEN /\ res' = NotFound("POST /runs/:run_id")
       /\ UNCHANGED <<runs, runEvents, sessions, routerSessions, tasks, uuid, now,
                      transitions,
                 messages, llmMessages, upstream, generated>>
  ELSE /\ resumeRun(runId)
       /\ res' = [req |-> "POST /runs/:run_id",
                  code |-> IF mode = "async" THEN 202 ELSE 200,
                  body |-> resumeRunResult(runId)]
       /\ UNCHANGED <<sessions, routerSessions, tasks, uuid, now, messages, llmMessages, upstream, generated>>

\* POST /runs/:run_id
PostResume(runId, mode) ==
  IF getRun(runId) = Null
  THEN /\ res' = NotFound("POST /runs/:run_id")
       /\ UNCHANGED <<runs, runEvents, sessions, routerSessions, tasks, uuid, now,
                      transitions,
                 messages, llmMessages, upstream, generated>>
  ELSE IF getRun(runId)[1].status # "awaiting"
  THEN /\ res' = [req |-> "POST /runs/:run_id", code |-> 400,
                  body |-> ErrorBody("invalid_input", "not in awaiting state")]
       /\ UNCHANGED <<runs, runEvents, sessions, routerSessions, tasks, uuid, now,
                      transitions,
                 messages, llmMessages, upstream, generated>>
  ELSE /\ resumeRun(runId)
       /\ res' = [req |-> "POST /runs/:run_id",
                  code |-> IF mode = "async" THEN 202 ELSE 200,
                  body |-> resumeRunResult(runId)[1]]
       /\ UNCHANGED <<sessions, routerSessions, tasks, uuid, now, messages, llmMessages, upstream, generated>>

\* GET /runs/:run_id
GetRun(runId) ==
  /\ res' = IF getRun(runId) = Null THEN NotFound("GET /runs/:run_id")
            ELSE [req |-> "GET /runs/:run_id", code |-> 200,
                  body |-> getRun(runId)[1]]
  /\ UNCHANGED <<runs, runEvents, sessions, routerSessions, tasks, uuid, now,
                 transitions, messages, llmMessages, upstream, generated>>

\* GET /runs/:run_id/events
GetRunEvents(runId) ==
  /\ res' = IF getRunEvents(runId) = Null THEN NotFound("GET /runs/:run_id/events")
            ELSE [req |-> "GET /runs/:run_id/events", code |-> 200,
                  body |-> [events |-> getRunEvents(runId)[1]]]
  /\ UNCHANGED <<runs, runEvents, sessions, routerSessions, tasks, uuid, now,
                 transitions, messages, llmMessages, upstream, generated>>

\* GET /session/:session_id
GetSession(sessionId) ==
  /\ res' = IF sessionId \notin routerSessions
            THEN NotFound("GET /session/:session_id")
            ELSE [req |-> "GET /session/:session_id", code |-> 200,
                  body |-> [id |-> sessionId, history |-> <<>>, state |-> Null]]
  /\ UNCHANGED <<runs, runEvents, sessions, routerSessions, tasks, uuid, now,
                 transitions,
                 messages, llmMessages, upstream, generated>>

\* time passes between two handlers
Tick ==
  /\ now < MaxClock
  /\ now' = now + 1
  /\ UNCHANGED <<runs, runEvents, sessions, routerSessions, tasks, uuid, res,
                 transitions,
                 messages, llmMessages, upstream, generated>>

Next ==
  \/ \E request \in SyncRequests : uuid < MaxRuns /\ PostRuns(request)
  \/ \E runId \in RunIds, llmResponse \in BackendReturns : LLMReturns(runId, llmResponse)
  \/ \E runId \in RunIds, error \in BackendRaises : LLMRaises(runId, error)
  \/ \E runId \in PathRunIds : PostCancel(runId)
  \/ \E runId \in PathRunIds, mode \in Modes : PostResume(runId, mode)
  \/ Tick

Spec == Init /\ [][Next]_vars

\* ---------------------------------------------------- the session registry
\* Creation requests under two sessions named by the caller and under a
\* session id generated by the route, with an input that converts and one
\* that makes runACP fail before its await.
SessionRequests ==
  { [agent_name |-> AgentName, input |-> Arr(i), session_id |-> s] :
      i \in {<<UserMsg("2+2?")>>, <<BadMsg>>}, s \in {"s1", "s2"} }
  \cup { [agent_name |-> AgentName, input |-> Arr(<<UserMsg("2+2?")>>)] }

SessionRunIds == 1..MaxSessionRuns
PathSessionIds == {"s1", "s2", "uuid-1", "nobody"}

NextSessions ==
  \/ \E request \in SessionRequests : uuid < MaxSessionRuns /\ PostRuns(request)
  \/ \E runId \in SessionRunIds :
       LLMReturns(runId, [success |-> TRUE, content |-> "4"])
  \/ \E runId \in SessionRunIds :
       LLMRaises(runId, [isError |-> TRUE, message |-> "Model not available"])
  \/ \E sessionId \in PathSessionIds : GetSession(sessionId)

SpecSessions == Init /\ [][NextSessions]_vars

\* ------------------------------------------------- the routes of one run
\* Every route of a run, with creation requests of every mode and the
\* rejected ones; a rejected request is answered whatever runs exist.
RouteRequests ==
  { [agent_name |-> AgentName, input |-> Arr(i), session_id |-> "s1", mode |-> m] :
      i \in {<<UserMsg("2+2?")>>, <<BadMsg>>}, m \in Modes }
  \cup { [agent_name |-> AgentName, input |-> Arr(<<UserMsg("2+2?")>>)] }
  \cup RejectedRequests

RouteRunIds == 1..MaxRouteRuns
PathRouteRunIds == 0..MaxRouteRuns

NextRoutes ==
  \/ \E request \in RouteRequests :
       /\ request \in RejectedRequests \/ uuid < MaxRouteRuns
       /\ PostRuns(request)
  \/ \E runId \in RouteRunIds, llmResponse \in BackendReturns :
       LLMReturns(runId, llmResponse)
  \/ \E runId \in RouteRunIds :
       LLMRaises(runId, [isError |-> TRUE, message |-> "Model not available"])
  \/ \E runId \in PathRouteRunIds : GetRun(runId)
  \/ \E runId \in PathRouteRunIds : GetRunEvents(runId)
  \/ \E runId \in PathRouteRunIds : PostCancel(runId)
  \/ \E runId \in PathRouteRunIds : PostResume(runId, "sync")

SpecRoutes == Init /\ [][NextRoutes]_vars

\* ----------------------------------------------- cancel among other runs
\* Runs of two sessions in flight together, any of them cancelled at any
\* moment, the backend call of each returning or raising before or after.
CancelRequests ==
  { [agent_name |-> AgentName, input |-> Arr(<<UserMsg("2+2?")>>), session_id |-> s] :
      s \in {"s1", "s2"} }

CancelRunIds == 1..MaxCancelRuns
PathCancelRunIds == 0..MaxCancelRuns

NextCancel ==
  \/ \E request \in CancelRequests : uuid < MaxCancelRuns /\ PostRuns(request)
  \/ \E runId \in CancelRunIds :
       LLMReturns(runId, [success |-> TRUE, content |-> "4"])
  \/ \E runId \in CancelRunIds :
       LLMRaises(runId, [isError |-> TRUE, message |-> "Model not available"])
  \/ \E runId \in PathCancelRunIds : PostCancel(runId)

SpecCancel == Init /\ [][NextCancel]_vars

\* ------------------------------------------------ backend calls that end
\* The same runs with resume and read requests among them, every backend
\* call that was dispatched returning or raising in the end: the promise
\* runACP awaits settles, and its continuation is then run.
BackendSettles(runId) ==
  \/ LLMReturns(runId, [success |-> TRUE, content |-> "4"])
  \/ LLMRaises(runId, [isError |-> TRUE, message |-> "Model not available"])

NextLive ==
  \/ \E request \in CancelRequests : uuid < MaxCancelRuns /\ PostRuns(request)
  \/ \E runId \in CancelRunIds :
       LLMReturns(runId, [success |-> TRUE, content |-> "4"])
  \/ \E runId \in CancelRunIds :
       LLMRaises(runId, [isError |-> TRUE, message |-> "Model not available"])
  \/ \E runId \in PathCancelRunIds : PostCancel(runId)
  \/ \E runId \in PathCancelRunIds : PostResume(runId, "sync")
  \/ \E runId \in PathCancelRunIds : GetRun(runId)

SpecLive ==
  /\ Init
  /\ [][NextLive]_vars
  /\ \A runId \in CancelRunIds : WF_vars(BackendSettles(runId))

\* ------------------------------------------- the inbound conversion alone
\* Well-formed envelopes: a role and up to MaxParts parts, each a text part
\* or an image.
SeqsUpTo(set, n) == UNION { [1..k -> set] : k \in 0..n }

MessageParts == { TextPart("a"), TextPart("b"), ImagePart }
MessageRoles == { RoleUser, RoleAgent, RoleAgentic }
Messages ==
  { [role |-> r, parts |-> ps] :
      r \in MessageRoles, ps \in SeqsUpTo(MessageParts, MaxParts) }

InitConvert ==
  /\ Constructed
  /\ \E n \in 0..MaxMessages : messages \in [1..n -> Messages]
  /\ llmMessages = Null
  /\ upstream = Null
  /\ generated = Null

\* this.convertACPMessagesToLLM(input)
Convert ==
  /\ llmMessages = Null
  /\ llmMessages' = Some(convertACPMessagesToLLM(messages))
  /\ UNCHANGED <<runs, runEvents, sessions, routerSessions, tasks, uuid, now,
                 res, transitions, messages, upstream, generated>>

NextConvert == Convert

SpecConvert == InitConvert /\ [][NextConvert]_vars

\* ------------------------------------------------------ the backend client
\* A JavaScript value with its typeof.
Str(s) == [type |-> "string", value |-> s]
Undefined == [type |-> "undefined"]

\* How the request to /chat/completions can settle: resolved with a response
\* (with or without data, choices, a message in a choice, usage) or rejected
\* with an Error (connection refused, timeout) or with another value.
Choices ==
  { [message |-> [content |-> Str("4")]],
    [message |-> [content |-> Undefined]],
    [finish_reason |-> "stop"] }
ResponseData ==
  { [choices |-> cs] : cs \in SeqsUpTo(Choices, MaxChoices) }
  \cup { [choices |-> cs, usage |-> [total_tokens |-> 7]] :
            cs \in SeqsUpTo(Choices, MaxChoices) }
  \cup { [object |-> "error"] }
UpstreamOutcomes ==
  { [resolved |-> TRUE, data |-> Some(d)] : d \in ResponseData }
  \cup { [resolved |-> TRUE, data |-> Null] }
  \cup { [resolved |-> FALSE, isError |-> TRUE, message |-> m] :
            m \in { "connect ECONNREFUSED 127.0.0.1:9999",
                    "timeout of 1ms exceeded" } }
  \cup { [resolved |-> FALSE, isError |-> FALSE] }

\* the value of the catch block
FallbackResponse(errorMessage) ==
  [ success |-> FALSE,
    error |-> Str(errorMessage),
    content |-> Str(FallbackContent) ]

\* generateResponse with a catch block that rethrows what the request
\* rejected with
generateResponse_Rethrows(outcome) ==
  IF ~outcome.resolved
  THEN [raised |-> TRUE]
  ELSE  IF /\ outcome.data # Null
          /\ "choices" \in DOMAIN outcome.data[1]
          /\ Len(outcome.data[1].choices) > 0
  THEN LET data == outcome.data[1]
       IN IF "message" \notin DOMAIN data.choices[1]
          THEN [raised |-> FALSE,
                value |-> FallbackResponse("Cannot read properties of undefined")]
          ELSE [raised |-> FALSE,
                value |-> [ success |-> TRUE,
                            content |-> data.choices[1].message.content,
                            usage |-> IF "usage" \in DOMAIN data
                                      THEN Some(data.usage) ELSE Null ]]
  ELSE [raised |-> FALSE, value |-> FallbackResponse("Respuesta invalida del modelo")]

\* How generateResponse ends once the request has settled with `outcome`:
\* everything after startTime is inside try, and the catch block returns.
generateResponse(outcome) ==
  IF ~outcome.resolved
  THEN [raised |-> FALSE,
        value |-> FallbackResponse(IF outcome.isError THEN outcome.message
                                   ELSE "Error desconocido")]
  ELSE  IF /\ outcome.data # Null
          /\ "choices" \in DOMAIN outcome.data[1]
          /\ Len(outcome.data[1].choices) > 0
  THEN LET data == outcome.data[1]
       IN IF "message" \notin DOMAIN data.choices[1]
          THEN [raised |-> FALSE,
                value |-> FallbackResponse("Cannot read properties of undefined")]
          ELSE [raised |-> FALSE,
                value |-> [ success |-> TRUE,
                            content |-> data.choices[1].message.content,
                            usage |-> IF "usage" \in DOMAIN data
                                      THEN Some(data.usage) ELSE Null ]]
  ELSE [raised |-> FALSE, value |-> FallbackResponse("Respuesta invalida del modelo")]

\* await this.client.post('/chat/completions', payload) settles
ClientPost(outcome) ==
  /\ upstream = Null
  /\ upstream' = Some(outcome)
  /\ UNCHANGED <<runs, runEvents, sessions, routerSessions, tasks, uuid, now,
                 res, transitions, messages, llmMessages, generated>>

\* generateResponse from the settled request to its end
GenerateResponse ==
  /\ upstream # Null
  /\ generated = Null
  /\ generated' = Some(generateResponse(upstream[1]))
  /\ UNCHANGED <<runs, runEvents, sessions, routerSessions, tasks, uuid, now,
                 res, transitions, messages, llmMessages, upstream>>

NextBackend ==
  \/ \E outcome \in UpstreamOutcomes : ClientPost(outcome)
  \/ GenerateResponse

SpecBackend == Init /\ [][NextBackend]_vars

\* ------------------------------------------------------ the run life cycle
EventTypes(runId) == [i \in 1..Len(runEvents[runId]) |-> runEvents[runId][i].type]

HasEvent(runId, type) ==
  \E i \in 1..Len(runEvents[runId]) : runEvents[runId][i].type = type

\* the edges of the state machine of the run tracker
Edges ==
  { <<"created", "in-progress">>,
    <<"in-progress", "completed">>,
    <<"in-progress", "failed">>,
    <<"in-progress", "awaiting">>,
    <<"awaiting", "completed">>,
    <<"created", "cancelled">>,
    <<"in-progress", "cancelled">>,
    <<"awaiting", "cancelled">> }

\* C1: terminal statuses are final.  Once the stored status of a run is
\* completed, failed or cancelled, no step changes it.
C1_TerminalStatusFinal ==
  [][ \A runId \in DOMAIN runs :
        IsTerminal(runs[runId].status) =>
          runs'[runId].status = runs[runId].status ]_vars

\* C2: every change of the stored status of a run is an edge of the state
\* machine.
C2_OnlyStateMachineEdges ==
  [][ \A runId \in DOMAIN runs :
        runs'[runId].status # runs[runId].status =>
          <<runs[runId].status, runs'[runId].status>> \in Edges ]_vars

\* C3: finished_at is null while the stored status is not terminal, is set
\* when the status is terminal, and once set is never written again.
C3_FinishedAtSetOnce ==
  /\ [](\A runId \in DOMAIN runs :
          (runs[runId].finished_at = Null) <=> ~IsTerminal(runs[runId].status))
  /\ [][ \A runId \in DOMAIN runs :
          runs[runId].finished_at # Null =>
            runs'[runId].finished_at = runs[runId].finished_at ]_vars

\* C4: when the backend call of a run returns or raises after the run has
\* become terminal, the run record (status, output, error, finished_at) is
\* left as it is and no event is appended.
C4_LateCompletionIsNoOp ==
  [][ \A runId \in DOMAIN runs :
        ( /\ IsTerminal(runs[runId].status)
          /\ \/ \E llmResponse \in BackendReturns : LLMReturns(runId, llmResponse)
             \/ \E error \in BackendRaises : LLMRaises(runId, error) )
        => /\ runs'[runId] = runs[runId]
           /\ runEvents'[runId] = runEvents[runId] ]_vars

\* C5: cancel on a terminal run answers 202 with the stored run, leaves the
\* run table and the event logs as they are; and since every cancel of an
\* existing run ends in a terminal status, cancelling again changes nothing.
C5_CancelIdempotentOnTerminal ==
  [][ \A runId \in PathRunIds :
        (PostCancel(runId) /\ runId \in DOMAIN runs) =>
          /\ IsTerminal(runs'[runId].status)
          /\ IsTerminal(runs[runId].status) =>
                /\ runs' = runs
                /\ runEvents' = runEvents
                /\ sessions' = sessions
                /\ res'.code = 202
                /\ res'.body = runs[runId] ]_vars

\* a cancel request has been answered with a run that is completed or
\* failed: the run was terminal when the request arrived
C5_Witness ==
  /\ res.req = "POST /runs/:run_id/cancel"
  /\ res.code = 202
  /\ res.body.status \in {"completed", "failed"}
  /\ runs[res.body.run_id] = res.body

\* C6: the status carried by the last event of a non-empty event log is the
\* stored status of the run.
C6_LastEventStatusIsStored ==
  \A runId \in DOMAIN runEvents :
    runEvents[runId] # <<>> =>
      /\ runId \in DOMAIN runs
      /\ runEvents[runId][Len(runEvents[runId])].run.status = runs[runId].status

\* a run whose log ends with the event of a cancel
C6_Witness ==
  \E runId \in DOMAIN runEvents :
    /\ Len(runEvents[runId]) = 3
    /\ runEvents[runId][3].type = "run.cancelled"
    /\ runs[runId].status = "cancelled"

\* C7: the length of the event log of a run is the number of changes of
\* its stored status, creation included.
C7_OneEventPerTransition ==
  \A runId \in DOMAIN runs : Len(runEvents[runId]) = transitions[runId]

\* C8: the type of every event is "run." followed by the status of the run
\* snapshot it carries.
C8_EventTypeMirrorsStatus ==
  \A runId \in DOMAIN runEvents :
    \A i \in 1..Len(runEvents[runId]) :
      runEvents[runId][i].type = "run." \o runEvents[runId][i].run.status

\* C9: event logs are append-only.  In every step the log of every run is
\* a prefix of its log after the step.
C9_EventLogAppendOnly ==
  [][ \A runId \in DOMAIN runEvents :
        /\ runId \in DOMAIN runEvents'
        /\ Len(runEvents'[runId]) >= Len(runEvents[runId])
        /\ SubSeq(runEvents'[runId], 1, Len(runEvents[runId])) = runEvents[runId]
    ]_vars

\* a log that grew by the event of a cancel and then by that of a completion
C9_Witness ==
  \E runId \in DOMAIN runEvents :
    EventTypes(runId) =
      <<"run.created", "run.in-progress", "run.cancelled", "run.completed">>

\* C10: a run whose backend call returned text t and on which no cancel
\* acted is completed, its output is one envelope with one part of content
\* t, and its log is run.created, run.in-progress, run.completed.  (A cancel
\* acts exactly when it appends run.cancelled.)
C10_HappyPath ==
  \A runId \in DOMAIN tasks :
    ( /\ tasks[runId].pc = "done"
      /\ tasks[runId].llmResponse # Null
      /\ ~HasEvent(runId, "run.cancelled") )
    => /\ runs[runId].status = "completed"
       /\ Len(runs[runId].output) = 1
       /\ Len(runs[runId].output[1].parts) = 1
       /\ runs[runId].output[1].parts[1].content = tasks[runId].llmResponse[1].content
       /\ EventTypes(runId) = <<"run.created", "run.in-progress", "run.completed">>

\* the backend returned "4" to a run that no cancel touched
C10_Witness ==
  \E runId \in DOMAIN tasks :
    /\ tasks[runId].pc = "done"
    /\ tasks[runId].llmResponse # Null
    /\ tasks[runId].llmResponse[1].content = "4"
    /\ ~HasEvent(runId, "run.cancelled")
    /\ runs[runId].output # <<>>

LastEvent(runId) == runEvents[runId][Len(runEvents[runId])]

\* C11: a run whose call ended in the catch branch of runACP (the backend
\* call raised) and on which no cancel acted is failed, its error has code
\* server_error, its output is empty, and its log ends with run.failed.
C11_BackendFailure ==
  \A runId \in DOMAIN tasks :
    ( /\ tasks[runId].pc = "done"
      /\ tasks[runId].error # Null
      /\ ~HasEvent(runId, "run.cancelled") )
    => /\ runs[runId].status = "failed"
       /\ runs[runId].error # Null
       /\ runs[runId].error[1].code = "server_error"
       /\ runs[runId].output = <<>>
       /\ LastEvent(runId).type = "run.failed"

\* the backend call of a run raised an Error and no cancel touched the run
C11_Witness ==
  \E runId \in DOMAIN tasks :
    /\ tasks[runId].pc = "done"
    /\ tasks[runId].error = Some([isError |-> TRUE, message |-> "Model not available"])
    /\ ~HasEvent(runId, "run.cancelled")
    /\ runs[runId].status = "failed"

\* C12: cancel on a run that is not terminal stores cancelled and
\* finished_at in that one step, appends exactly one run.cancelled event
\* carrying the stored run and answers with it; the status cancelling is
\* never stored nor returned.
C12_CancelGoesStraightToCancelled ==
  /\ [](/\ \A runId \in DOMAIN runs : runs[runId].status # "cancelling"
        /\ (res.req = "POST /runs/:run_id/cancel" /\ res.code = 202) =>
              res.body.status # "cancelling")
  /\ [][ \A runId \in PathRunIds :
          ( /\ PostCancel(runId)
            /\ runId \in DOMAIN runs
            /\ ~IsTerminal(runs[runId].status) )
          => /\ runs'[runId].status = "cancelled"
             /\ runs'[runId].finished_at = Some(now)
             /\ runEvents'[runId] =
                  Append(runEvents[runId],
                         [type |-> "run.cancelled", run |-> runs'[runId]])
             /\ res'.code = 202
             /\ res'.body = runs'[runId] ]_vars

\* a cancel has just been answered with the run it cancelled
C12_Witness ==
  /\ res.req = "POST /runs/:run_id/cancel"
  /\ res.code = 202
  /\ res.body.status = "cancelled"
  /\ res.body.finished_at = Some(now)
  /\ runs[res.body.run_id] = res.body
  /\ EventTypes(res.body.run_id) = <<"run.created", "run.in-progress", "run.cancelled">>

\* C13: a resume request for an existing run that is not awaiting is
\* answered 400 and changes neither the run table nor any event log.
C13_ResumeRejectedUnlessAwaiting ==
  [][ \A runId \in PathRunIds, mode \in Modes :
        ( /\ PostResume(runId, mode)
          /\ runId \in DOMAIN runs
          /\ runs[runId].status # "awaiting" )
        => /\ res'.code = 400
           /\ runs' = runs
           /\ runEvents' = runEvents
           /\ sessions' = sessions ]_vars

\* a resume request for a run that is in progress has been answered 400
C13_Witness ==
  /\ res.req = "POST /runs/:run_id"
  /\ res.code = 400
  /\ \E runId \in DOMAIN runs : runs[runId].status = "in-progress"

\* C14: no run is ever awaiting, and no resume request changes the run
\* table or an event log.
C14_NeverAwaiting ==
  /\ [](\A runId \in DOMAIN runs : runs[runId].status # "awaiting")
  /\ [][ \A runId \in PathRunIds, mode \in Modes :
          PostResume(runId, mode) => (runs' = runs /\ runEvents' = runEvents) ]_vars

\* a resume request has been refused for a run that was cancelled in
\* flight and whose backend call has returned since
C14_Witness ==
  /\ res.req = "POST /runs/:run_id"
  /\ res.code = 400
  /\ \E runId \in DOMAIN runs :
       /\ HasEvent(runId, "run.cancelled")
       /\ tasks[runId].pc = "done"

\* C15: the output of a stored run is non-empty only if its status is
\* completed.
C15_OutputOnlyWhenCompleted ==
  \A runId \in DOMAIN runs :
    runs[runId].output # <<>> => runs[runId].status = "completed"

\* a run with output, and one that was cancelled before its call returned
C15_Witness ==
  \E runId \in DOMAIN runs :
    /\ runs[runId].output # <<>>
    /\ HasEvent(runId, "run.cancelled")

\* C16: the error of a stored run is non-null only if its status is failed.
C16_ErrorOnlyWhenFailed ==
  \A runId \in DOMAIN runs :
    runs[runId].error # Null => runs[runId].status = "failed"

\* a run with an error, and one that was cancelled before its call raised
C16_Witness ==
  \E runId \in DOMAIN runs :
    /\ runs[runId].error # Null
    /\ HasEvent(runId, "run.cancelled")

\* ---------------------------------------------------- the session registry
\* the runs created under a session: the POST /runs calls that named it
CreatedUnder(sessionId) ==
  { runId \in DOMAIN tasks : tasks[runId].sessionId = sessionId }

\* Run ids are handed out in increasing order, so the creation order of a
\* set of runs is their ascending order.
RECURSIVE Ascending(_)
Ascending(ids) ==
  IF ids = {} THEN <<>>
  ELSE LET first == CHOOSE x \in ids : \A y \in ids : x <= y
       IN <<first>> \o Ascending(ids \ {first})

\* C17: the run-id list of every session under which runs were created
\* holds exactly those runs, in creation order, and each of them carries
\* that session id.
C17_SessionListsRunsInOrder ==
  \A runId \in DOMAIN tasks :
    LET sessionId == tasks[runId].sessionId
    IN /\ sessionId \in DOMAIN sessions
       /\ sessions[sessionId].runs = Ascending(CreatedUnder(sessionId))
       /\ runs[runId].session_id = sessionId

\* two runs under s1 with a run of another session created between them
C17_Witness ==
  /\ "s1" \in DOMAIN sessions
  /\ sessions["s1"].runs = <<1, 3>>
  /\ 2 \in DOMAIN runs
  /\ runs[2].session_id # "s1"

\* C18: every id in the list of a session is a stored run that carries
\* that session id (so no id is in the lists of two sessions), and every
\* stored run is in the list of the session it carries.
C18_SessionAndRunAgree ==
  /\ \A sessionId \in DOMAIN sessions :
       \A i \in 1..Len(sessions[sessionId].runs) :
         LET runId == sessions[sessionId].runs[i]
         IN /\ runId \in DOMAIN runs
            /\ runs[runId].session_id = sessionId
            /\ \A j \in 1..Len(sessions[sessionId].runs) :
                 sessions[sessionId].runs[j] = runId => j = i
  /\ \A runId \in DOMAIN runs :
       /\ runs[runId].session_id \in DOMAIN sessions
       /\ \E i \in 1..Len(sessions[runs[runId].session_id].runs) :
            sessions[runs[runId].session_id].runs[i] = runId

\* a run rebuilt by the catch branch after its backend call raised, next to
\* a run of another session
C18_Witness ==
  \E runId \in DOMAIN runs :
    /\ runs[runId].status = "failed"
    /\ tasks[runId].error = Some([isError |-> TRUE, message |-> "Model not available"])
    /\ \E other \in DOMAIN runs : runs[other].session_id # runs[runId].session_id

\* C19: GET /session/:session_id answers 200 with the run ids created under
\* the session, in creation order, when there are any, and 404 when no run
\* was created under it.
C19_SessionDescriptorListsRuns ==
  [][ \A sessionId \in PathSessionIds :
        GetSession(sessionId) =>
          IF CreatedUnder(sessionId) = {}
          THEN res'.code = 404
          ELSE /\ res'.code = 200
               /\ res'.body.history = Ascending(CreatedUnder(sessionId)) ]_vars

\* ------------------------------------------------- the inbound conversion
TextParts(message) == SelectSeq(message.parts, IsTextPart)

\* C20: the conversion of N envelopes returns N pairs, the i-th pair made
\* from the i-th envelope: its content the contents of that envelope's text
\* parts in their order, one per line, and the empty string when the
\* envelope has no text part.
C20_ConversionKeepsCountAndOrder ==
  llmMessages # Null =>
    LET pairs == llmMessages[1]
    IN /\ Len(pairs) = Len(messages)
       /\ \A i \in 1..Len(pairs) :
            LET texts == TextParts(messages[i])
            IN /\ pairs[i].role =
                    (IF messages[i].role = RoleUser THEN "user" ELSE "assistant")
               /\ pairs[i].content = Join([j \in 1..Len(texts) |-> texts[j].content])
               /\ texts = <<>> => pairs[i].content = ""

\* two envelopes converted, the first with parts but no text part
C20_Witness ==
  /\ llmMessages # Null
  /\ Len(messages) = 2
  /\ messages[1].parts = <<ImagePart>>
  /\ TextParts(messages[2]) # <<>>
  /\ Len(llmMessages[1]) = 2
  /\ llmMessages[1][1].content = ""

\* C21: every pair of the conversion has the contents of its envelope's text
\* parts, in part order, one per line, and the role assistant exactly when
\* the envelope's role begins with agent/, user for every other role.
C21_ConversionOfOneEnvelope ==
  llmMessages # Null =>
    \A i \in 1..Len(messages) :
      LET texts == TextParts(messages[i])
          pair == llmMessages[1][i]
      IN /\ pair.content = Join([j \in 1..Len(texts) |-> texts[j].content])
         /\ pair.role =
              (IF StartsWith(messages[i].role, <<"a", "g", "e", "n", "t", "/">>)
               THEN "assistant" ELSE "user")

\* ------------------------------------------------------------- the routes
MissingFields(request) ==
  \/ "agent_name" \notin DOMAIN request
  \/ "input" \notin DOMAIN request
  \/ ~IsArray(request.input)

\* the agent's tables, the router's table and the calls in flight
Stores == <<runs, runEvents, sessions, routerSessions, tasks, uuid>>

\* C22: a creation request without agent_name, without input or with an
\* input that is no list is answered 400 invalid_input, one that names
\* another agent 404 not_found, and either leaves the run table, the event
\* logs, both session tables and the calls in flight as they were.
C22_RejectedCreationChangesNothing ==
  [][ \A request \in RouteRequests :
        PostRuns(request) =>
          /\ MissingFields(request) =>
               /\ res'.code = 400
               /\ res'.body.code = "invalid_input"
               /\ UNCHANGED Stores
          /\ (~MissingFields(request) /\ request.agent_name # AgentName) =>
               /\ res'.code = 404
               /\ res'.body.code = "not_found"
               /\ UNCHANGED Stores ]_vars

\* a request for another agent rejected after run 1 has finished
C22_Witness ==
  /\ 1 \in DOMAIN tasks
  /\ tasks[1].pc = "done"
  /\ res = [req |-> "POST /runs", code |-> 404,
            body |-> ErrorBody("not_found", "Agent not found")]

\* C23: when the backend call of a sync or async POST /runs raises, the run
\* is stored failed, the response is the error body with code server_error,
\* and the call is not made again.
C23_BackendRaiseAnswersServerError ==
  [][ \A runId \in RouteRunIds :
        ( /\ LLMRaises(runId, [isError |-> TRUE, message |-> "Model not available"])
          /\ tasks[runId].mode # "stream" ) =>
          /\ runs'[runId].status = "failed"
          /\ tasks'[runId].pc = "done"
          /\ res'.body = ErrorBody("server_error", "Model not available") ]_vars

\* C24: the frames of a finished stream-mode POST /runs are run.created and
\* then one frame that agrees with the stored run: run.failed with status
\* failed and error code server_error when it is failed, run.completed with
\* status completed and a non-empty output when it is completed.
C24_StreamFramesAgreeWithStoredRun ==
  (res.req = "POST /runs" /\ "frames" \in DOMAIN res /\ Len(res.frames) > 1) =>
    LET last == res.frames[2]
        stored == runs[last.run.run_id]
    IN /\ Len(res.frames) = 2
       /\ res.frames[1].type = "run.created"
       /\ stored.status = "failed" =>
            /\ last.type = "run.failed"
            /\ last.run.status = "failed"
            /\ last.run.error # Null
            /\ last.run.error[1].code = "server_error"
       /\ stored.status = "completed" =>
            /\ last.type = "run.completed"
            /\ last.run.status = "completed"
            /\ last.run.output # <<>>

\* a run id no POST /runs has handed out
NeverCreated(runId) == runId < 1 \/ runId > uuid

IsNotFound(response) == response.code = 404 /\ response.body.code = "not_found"

\* C25: for a run id that was never created the two reads, cancel and
\* resume answer 404 not_found and change nothing; for a run id that was
\* created the two reads never answer 404.
C25_NotFoundOnlyForUnknownRuns ==
  [][ \A runId \in PathRouteRunIds :
        /\ NeverCreated(runId) =>
             /\ GetRun(runId) => IsNotFound(res') /\ UNCHANGED Stores
             /\ GetRunEvents(runId) => IsNotFound(res') /\ UNCHANGED Stores
             /\ PostCancel(runId) => IsNotFound(res') /\ UNCHANGED Stores
             /\ PostResume(runId, "sync") => IsNotFound(res') /\ UNCHANGED Stores
        /\ ~NeverCreated(runId) =>
             /\ GetRun(runId) => res'.code = 200 /\ res'.body = runs[runId]
             /\ GetRunEvents(runId) =>
                  res'.code = 200 /\ res'.body.events = runEvents[runId] ]_vars

\* a cancel of the unknown id 0 answered while run 1 exists
C25_Witness ==
  /\ uuid = 1
  /\ tasks[1].pc = "done"
  /\ res = NotFound("POST /runs/:run_id/cancel")

\* C29: every Run that POST /runs answers in sync or async mode is terminal
\* and is the stored run of that moment, with code 202 in async mode and 200
\* otherwise.
C29_RunAnsweredWhenTerminal ==
  [][ ( /\ res' # res
        /\ res'.req = "POST /runs"
        /\ res'.code \in {200, 202}
        /\ "body" \in DOMAIN res' ) =>
        LET run == res'.body
        IN /\ IsTerminal(run.status)
           /\ run.run_id \in DOMAIN runs'
           /\ run = runs'[run.run_id]
           /\ res'.code = (IF tasks'[run.run_id].mode = "async" THEN 202 ELSE 200) ]_vars

\* an async creation answered 202 with the completed run
C29_Witness ==
  /\ res.req = "POST /runs"
  /\ res.code = 202
  /\ res.body.status = "completed"
  /\ res.body = runs[res.body.run_id]

\* ------------------------------------------------------ the backend client
\* the outcomes generateResponse does not answer with the model's text
Failing(outcome) ==
  \/ ~outcome.resolved
  \/ outcome.data = Null
  \/ "choices" \notin DOMAIN outcome.data[1]
  \/ outcome.data[1].choices = <<>>

\* C26: however the request settled, generateResponse returns a value and
\* does not raise; when the request failed or answered without choices, the
\* value has success false, a string error and a string content.
C26_GenerateResponseNeverRaises ==
  generated # Null =>
    /\ ~generated[1].raised
    /\ Failing(upstream[1]) =>
         LET value == generated[1].value
         IN /\ value.success = FALSE
            /\ "error" \in DOMAIN value
            /\ value.error.type = "string"
            /\ value.content.type = "string"

\* the call has returned after its request timed out
C26_Witness ==
  /\ generated # Null
  /\ upstream = Some([resolved |-> FALSE, isError |-> TRUE,
                      message |-> "timeout of 1ms exceeded"])
  /\ ~generated[1].raised
  /\ generated[1].value.success = FALSE

\* ------------------------------------------------------------------ cancel
Others(table, runId) == [x \in DOMAIN table \ {runId} |-> table[x]]

\* C27: a cancel of run r leaves the record and the log of every other run,
\* the session lists and the run table's keys as they were, and leaves the
\* runACP call of r where it was: a call that awaits its backend still
\* awaits it, and its return or raise is still taken.
C27_CancelOnlyTouchesItsRun ==
  /\ [][ \A runId \in PathCancelRunIds :
          PostCancel(runId) =>
            /\ Others(runs', runId) = Others(runs, runId)
            /\ Others(runEvents', runId) = Others(runEvents, runId)
            /\ DOMAIN runs' = DOMAIN runs
            /\ sessions' = sessions
            /\ routerSessions' = routerSessions
            /\ tasks' = tasks ]_vars
  /\ [](\A runId \in DOMAIN tasks :
          (tasks[runId].pc = "await" /\ runs[runId].status = "cancelled") =>
            /\ ENABLED LLMReturns(runId, [success |-> TRUE, content |-> "4"])
            /\ ENABLED LLMRaises(runId, [isError |-> TRUE,
                                         message |-> "Model not available"]))

\* run 1 cancelled while its backend call and that of run 2 are pending
C27_Witness ==
  /\ DOMAIN runs = {1, 2}
  /\ runs[1].status = "cancelled"
  /\ tasks[1].pc = "await"
  /\ runs[2].status = "in-progress"
  /\ tasks[2].pc = "await"

\* ------------------------------------------- a failure the client returns
\* C28: a run whose backend call returned success false with the fallback
\* text is stored completed with no error and one output message of one
\* part holding the fallback text, its log ends in run.completed, and it is
\* never failed.
C28_ReturnedFailureCompletesRun ==
  \A runId \in DOMAIN tasks :
    tasks[runId].llmResponse = Some([success |-> FALSE, content |-> FallbackContent]) =>
      /\ runs[runId].status = "completed"
      /\ runs[runId].error = Null
      /\ Len(runs[runId].output) = 1
      /\ Len(runs[runId].output[1].parts) = 1
      /\ runs[runId].output[1].parts[1].content = FallbackContent
      /\ LastEvent(runId).type = "run.completed"
      /\ ~HasEvent(runId, "run.failed")

\* the backend call of a run returned the fallback and the run is finished
C28_Witness ==
  \E runId \in DOMAIN tasks :
    /\ tasks[runId].pc = "done"
    /\ tasks[runId].llmResponse = Some([success |-> FALSE, content |-> FallbackContent])
    /\ runs[runId].finished_at # Null

\* ------------------------------------------------------------- termination
\* C30: when every dispatched backend call returns or raises in the end,
\* every run that was created is stored with status completed, failed or
\* cancelled in the end, whatever cancels, resumes, reads and other runs
\* come in between.
C30_EveryRunTerminates ==
  \A runId \in CancelRunIds :
    (runId \in DOMAIN runs) ~>
      (runId \in DOMAIN runs /\ IsTerminal(runs[runId].status))

\* a run finished by the return of its backend call while another run
\* still awaits its own
C30_Witness ==
  \E runId \in DOMAIN tasks, other \in DOMAIN tasks :
    /\ tasks[runId].pc = "done"
    /\ tasks[runId].llmResponse # Null
    /\ IsTerminal(runs[runId].status)
    /\ tasks[other].pc = "await"

====
